---- MODULE Spec2Model ----
(***************************************************************************)
(* A model of QXmppMessage (src/base/QXmppMessage.cpp): the message value, *)
(* its setters, the decoder QXmppMessage::parse and the encoder            *)
(* QXmppMessage::toXml.                                                    *)
(*                                                                         *)
(* An XML element is a record; a missing attribute and an empty attribute  *)
(* are both "" (QDomElement::attribute returns "" for either).  A child    *)
(* element carries its local name, its namespace, its text, its id and     *)
(* stamp attributes and, for an html child, the namespace and the content  *)
(* of its first body child.  Markup is a sequence of tokens.               *)
(***************************************************************************)
EXTENDS Naturals, Sequences, FiniteSets

VARIABLES
    msg,           \* the QXmppMessage object: its members and its QXmppStanza base
    s_uniqeIdNo,   \* QXmppStanza's static id counter
    elem,          \* <<e>>: msg is parse(e), untouched since; <<>> otherwise
    out,           \* <<o>>: o is what the last operation, toXml, wrote; <<>> otherwise
    last,          \* the last operation and its argument
    receiptBySetter, \* receiptRequested was set by setReceiptRequested(true) and the id not cleared since
    cleanBefore,   \* the value the last parse started from had no state, no xhtml and no stamp
    nops           \* setter calls since construction (bounded in SpecSetters)

vars == <<msg, s_uniqeIdNo, elem, out, last, receiptBySetter, cleanBefore, nops>>

(***************************************************************************)
(* Tables and namespaces                                                   *)
(***************************************************************************)
\* enum QXmppMessage::Type, the index into message_types
Error == 0
Normal == 1
Chat == 2
GroupChat == 3
Headline == 4

\* enum QXmppMessage::State, the index into chat_states
None == 0
Active == 1
Inactive == 2
Gone == 3
Composing == 4
Paused == 5

\* chat_states[i] is chat_states_tab[i + 1]
chat_states_tab == <<"", "active", "inactive", "gone", "composing", "paused">>
chat_states(i) == chat_states_tab[i + 1]

\* message_types[i] is message_types_tab[i + 1]
message_types_tab == <<"error", "normal", "chat", "groupchat", "headline">>
message_types(i) == message_types_tab[i + 1]

ns_xhtml == "http://www.w3.org/1999/xhtml"
ns_chat_states == "http://jabber.org/protocol/chatstates"
ns_xhtml_im == "http://jabber.org/protocol/xhtml-im"
ns_message_receipts == "urn:xmpp:receipts"
ns_delayed_delivery == "urn:xmpp:delay"
ns_legacy_delayed_delivery == "jabber:x:delay"
ns_attention == "urn:xmpp:attention:0"
\* the stanza's own namespace, and a namespace the codec does not know
ns_client == "jabber:client"
ns_foreign == "urn:example:foreign"

DelayedDelivery == "DelayedDelivery"
LegacyDelayedDelivery == "LegacyDelayedDelivery"

(***************************************************************************)
(* XML elements                                                            *)
(***************************************************************************)
El(name, ns) ==
    [name |-> name, ns |-> ns, text |-> "", id |-> "", stamp |-> "",
     bodyNs |-> "", content |-> <<>>]

\* a null QDomElement: no name, namespaceURI() "", attribute() "", text() ""
NullElement == El("", "")
isNull(c) == c.name = ""

TextEl(name, text) == [El(name, ns_client) EXCEPT !.text = text]
IdEl(name, ns, id) == [El(name, ns) EXCEPT !.id = id]
StampEl(name, ns, stamp) == [El(name, ns) EXCEPT !.stamp = stamp]
HtmlEl(ns, bodyNs, content) ==
    [El("html", ns) EXCEPT !.bodyNs = bodyNs, !.content = content]

\* QDomNode::firstChildElement(name): the first child of that local name,
\* whatever its namespace; a null element when there is none
RECURSIVE firstChildElement(_, _)
firstChildElement(children, name) ==
    IF children = <<>> THEN NullElement
    ELSE IF Head(children).name = name THEN Head(children)
    ELSE firstChildElement(Tail(children), name)

\* the children of that local name, in document order: what the
\* firstChildElement(name) / nextSiblingElement(name) walk visits
RECURSIVE childElements(_, _)
childElements(children, name) ==
    IF children = <<>> THEN <<>>
    ELSE IF Head(children).name = name
         THEN <<Head(children)>> \o childElements(Tail(children), name)
         ELSE childElements(Tail(children), name)

(***************************************************************************)
(* Instants and their wire forms.  An instant is 0 (a null, invalid        *)
(* QDateTime) or a positive number.                                        *)
(***************************************************************************)
InvalidStamp == 0

\* QXmppUtils::datetimeFromString: XEP-0082, with a time zone offset
datetimeFromString(str) ==
    CASE str = "2009-01-10T08:21:05Z"      -> 1
      [] str = "2009-01-10T10:21:05+02:00" -> 1
      [] str = "2010-02-03T04:05:06Z"      -> 2
      [] OTHER                             -> InvalidStamp

\* QXmppUtils::datetimeToString of a UTC instant
datetimeToString(t) ==
    CASE t = 1 -> "2009-01-10T08:21:05Z"
      [] t = 2 -> "2010-02-03T04:05:06Z"
      [] OTHER -> ""

\* QDateTime::fromString(str, "yyyyMMddThh:mm:ss") followed by setTimeSpec(Qt::UTC)
legacyFromString(str) ==
    CASE str = "20090110T08:21:05" -> 1
      [] str = "20100203T04:05:06" -> 2
      [] OTHER                     -> InvalidStamp

\* QDateTime::toString("yyyyMMddThh:mm:ss") of a UTC instant
legacyToString(t) ==
    CASE t = 1 -> "20090110T08:21:05"
      [] t = 2 -> "20100203T04:05:06"
      [] OTHER -> ""

isValid(t) == t # InvalidStamp

(***************************************************************************)
(* The message value                                                       *)
(***************************************************************************)
\* a constructor that starts from the type the decoder falls back to
ConstructedNormal(from, to, body, thread) ==
    [from |-> from, to |-> to, id |-> "", lang |-> "", error |-> "",
     extensions |-> <<>>, type |-> Normal, stamp |-> InvalidStamp,
     stampType |-> DelayedDelivery, state |-> None,
     attentionRequested |-> FALSE, body |-> body, subject |-> "",
     thread |-> thread, xhtml |-> <<>>, receiptId |-> "",
     receiptRequested |-> FALSE]

\* QXmppMessage::QXmppMessage(from, to, body, thread)
Constructed(from, to, body, thread) ==
    [from |-> from, to |-> to, id |-> "", lang |-> "", error |-> "",
     extensions |-> <<>>,
     type |-> Chat,
     stamp |-> InvalidStamp,
     stampType |-> DelayedDelivery,
     state |-> None,
     attentionRequested |-> FALSE,
     body |-> body,
     subject |-> "",
     thread |-> thread,
     xhtml |-> <<>>,
     receiptId |-> "",
     receiptRequested |-> FALSE]

\* "qxmpp" + QString::number(n)
GeneratedId(n) ==
    <<"qxmpp1", "qxmpp2", "qxmpp3", "qxmpp4", "qxmpp5", "qxmpp6">>[n]

\* QXmppStanza::generateAndSetNextId: the counter is advanced and the id made
\* from its new value
generateAndSetNextId(m, counter) ==
    [m |-> [m EXCEPT !.id = GeneratedId(counter + 1)], counter |-> counter + 1]

(***************************************************************************)
(* Setters, as functions of the value                                      *)
(***************************************************************************)
setBodyValue(m, body) == [m EXCEPT !.body = body]
setSubjectValue(m, subject) == [m EXCEPT !.subject = subject]
setThreadValue(m, thread) == [m EXCEPT !.thread = thread]
setTypeValue(m, type) == [m EXCEPT !.type = type]
setStateValue(m, state) == [m EXCEPT !.state = state]
setXhtmlValue(m, xhtml) == [m EXCEPT !.xhtml = xhtml]
setStampValue(m, stamp) == [m EXCEPT !.stamp = stamp]
setReceiptIdValue(m, id) == [m EXCEPT !.receiptId = id]
setAttentionRequestedValue(m, requested) ==
    [m EXCEPT !.attentionRequested = requested]
\* QXmppStanza::setId, setExtensions, setError
setIdValue(m, id) == [m EXCEPT !.id = id]
setExtensionsValue(m, extensions) == [m EXCEPT !.extensions = extensions]
setErrorValue(m, error) == [m EXCEPT !.error = error]

\* a setReceiptRequested that only stores the flag
setReceiptRequestedFlagOnly(m, requested, counter) ==
    [m |-> [m EXCEPT !.receiptRequested = requested], counter |-> counter]

\* QXmppMessage::setReceiptRequested: the value and the static counter after it
setReceiptRequestedValue(m, requested, counter) ==
    LET m1 == [m EXCEPT !.receiptRequested = requested]
    IN  IF requested /\ m1.id = ""
        THEN generateAndSetNextId(m1, counter)
        ELSE [m |-> m1, counter |-> counter]

(***************************************************************************)
(* Markup: a sequence of tokens; a tag token is one that holds a '>'       *)
(***************************************************************************)
BodyOpenTag == "<body xmlns=\"http://www.w3.org/1999/xhtml\">"
BodyEmptyTag == "<body xmlns=\"http://www.w3.org/1999/xhtml\"/>"
Newline == "\n"
TagTokens ==
    {BodyOpenTag, BodyEmptyTag, "<body>", "<body/>", "</body>",
     "<p>", "</p>", "<b>", "</b>"}

\* QDomElement::save(stream, 0) of a body element in the XHTML namespace
savedBody(content) ==
    IF content = <<>> THEN <<BodyEmptyTag, Newline>>
    ELSE <<BodyOpenTag>> \o content \o <<"</body>", Newline>>

\* s.mid(s.indexOf('>') + 1): s itself when it holds no '>'
RECURSIVE afterFirstGt(_, _)
afterFirstGt(s, whole) ==
    IF s = <<>> THEN whole
    ELSE IF Head(s) \in TagTokens THEN Tail(s)
    ELSE afterFirstGt(Tail(s), whole)

\* s.replace(" xmlns=\"http://www.w3.org/1999/xhtml\"", "")
withoutXmlns(s) ==
    [i \in 1..Len(s) |->
        CASE s[i] = BodyOpenTag  -> "<body>"
          [] s[i] = BodyEmptyTag -> "<body/>"
          [] OTHER               -> s[i]]

\* s.replace("</body>", "")
withoutBodyEnd(s) == SelectSeq(s, LAMBDA t : t # "</body>")

\* s.trimmed()
RECURSIVE trimmedLeft(_)
trimmedLeft(s) ==
    IF s # <<>> /\ Head(s) = Newline THEN trimmedLeft(Tail(s)) ELSE s
RECURSIVE trimmedRight(_)
trimmedRight(s) ==
    IF s # <<>> /\ s[Len(s)] = Newline
    THEN trimmedRight(SubSeq(s, 1, Len(s) - 1)) ELSE s
trimmed(s) == trimmedRight(trimmedLeft(s))

(***************************************************************************)
(* The decoder, QXmppMessage::parse                                        *)
(***************************************************************************)
\* An element <message/>: its attributes and its children in document order
Element(type, id, children) ==
    [type |-> type, id |-> id, to |-> "", from |-> "", lang |-> "",
     children |-> children]

\* QXmppStanza::parse: from, to, id, lang and the error child
stanzaParse(m, element) ==
    [m EXCEPT !.from = element.from, !.to = element.to, !.id = element.id,
              !.lang = element.lang,
              !.error = firstChildElement(element.children, "error").text]

\* the loop over message_types: the first index whose string is the type
\* attribute, Normal when there is none
RECURSIVE parseTypeFrom(_, _)
parseTypeFrom(type, i) ==
    IF i > Headline THEN Normal
    ELSE IF type = message_types(i) THEN i
    ELSE parseTypeFrom(type, i + 1)
parseType(type) == parseTypeFrom(type, Error)

\* the loop over chat_states: the first index i whose first same-named child
\* is in the chat-states namespace; m_state is left alone when there is none
RECURSIVE parseStateFrom(_, _, _)
parseStateFrom(m_state, children, i) ==
    IF i > Paused THEN m_state
    ELSE LET stateElement == firstChildElement(children, chat_states(i))
         IN  IF ~isNull(stateElement) /\ stateElement.ns = ns_chat_states
             THEN i
             ELSE parseStateFrom(m_state, children, i + 1)
parseState(m_state, children) == parseStateFrom(m_state, children, Active)

\* XEP-0071: the saved body is appended to m_xhtml by the text stream, then
\* cut; m_xhtml is left alone when the html/body pair is not there
parseXhtml(m_xhtml, children) ==
    LET htmlElement == firstChildElement(children, "html")
    IN  IF ~isNull(htmlElement) /\ htmlElement.ns = ns_xhtml_im
           /\ htmlElement.bodyNs = ns_xhtml
        THEN LET written == m_xhtml \o savedBody(htmlElement.content)
             IN  trimmed(withoutBodyEnd(withoutXmlns(
                     afterFirstGt(written, written))))
        ELSE m_xhtml

\* XEP-0184: the id of the first received child, the stanza's id when empty
parseReceiptId(children, id) ==
    LET receivedElement == firstChildElement(children, "received")
    IN  IF ~isNull(receivedElement) /\ receivedElement.ns = ns_message_receipts
        THEN IF receivedElement.id = "" THEN id ELSE receivedElement.id
        ELSE ""

parseReceiptRequested(children) ==
    firstChildElement(children, "request").ns = ns_message_receipts

\* XEP-0203: the first delay child
parseDelay(m, children) ==
    LET delayElement == firstChildElement(children, "delay")
    IN  IF ~isNull(delayElement) /\ delayElement.ns = ns_delayed_delivery
        THEN [m EXCEPT !.stamp = datetimeFromString(delayElement.stamp),
                       !.stampType = DelayedDelivery]
        ELSE m

\* XEP-0224
parseAttention(children) ==
    firstChildElement(children, "attention").ns = ns_attention

\* QXmppElement(xElement), the copy kept, and QXmppElement::toXml of it
QXmppElement(xElement) == xElement
extensionToXml(extension) == extension

\* a walk that puts each x in front of the ones kept before
RECURSIVE parseXPrepending(_, _, _)
parseXPrepending(m, xs, extensions) ==
    IF xs = <<>> THEN [m EXCEPT !.extensions = extensions]
    ELSE LET xElement == Head(xs)
         IN  IF xElement.ns = ns_legacy_delayed_delivery
             THEN parseXPrepending(
                      [m EXCEPT !.stamp = legacyFromString(xElement.stamp),
                                !.stampType = LegacyDelayedDelivery],
                      Tail(xs), extensions)
             ELSE parseXPrepending(m, Tail(xs), <<xElement>> \o extensions)

\* the walk over the x children: a legacy delay sets the stamp, any other x
\* is appended to the extensions
RECURSIVE parseX(_, _, _)
parseX(m, xs, extensions) ==
    IF xs = <<>> THEN [m EXCEPT !.extensions = extensions]
    ELSE LET xElement == Head(xs)
         IN  IF xElement.ns = ns_legacy_delayed_delivery
             THEN parseX([m EXCEPT !.stamp = legacyFromString(xElement.stamp),
                                   !.stampType = LegacyDelayedDelivery],
                         Tail(xs), extensions)
             ELSE parseX(m, Tail(xs),
                         Append(extensions, QXmppElement(xElement)))

\* QXmppMessage::parse
ParseValue(m, element) ==
    LET children == element.children
        m1 == stanzaParse(m, element)
        m2 == [m1 EXCEPT
                 !.type = parseType(element.type),
                 !.body = firstChildElement(children, "body").text,
                 !.subject = firstChildElement(children, "subject").text,
                 !.thread = firstChildElement(children, "thread").text,
                 !.state = parseState(m1.state, children),
                 !.xhtml = parseXhtml(m1.xhtml, children),
                 !.receiptId = parseReceiptId(children, m1.id),
                 !.receiptRequested = parseReceiptRequested(children)]
        m3 == parseDelay(m2, children)
        m4 == [m3 EXCEPT !.attentionRequested = parseAttention(children)]
    IN  parseX(m4, childElements(children, "x"), <<>>)

(***************************************************************************)
(* The encoder, QXmppMessage::toXml                                        *)
(***************************************************************************)
\* helperToXmlAddTextElement under a condition
textChild(name, value) ==
    IF value # "" THEN <<TextEl(name, value)>> ELSE <<>>

\* QXmppStanza::Error::toXml: nothing when no error is set
errorToXml(error) == textChild("error", error)

\* a chat-state child written for every state, None included
stateChildAlways(m) == <<El(chat_states(m.state), ns_chat_states)>>

stateChild(m) ==
    IF m.state > None /\ m.state <= Paused
    THEN <<El(chat_states(m.state), ns_chat_states)>> ELSE <<>>

xhtmlChild(m) ==
    IF m.xhtml # <<>> THEN <<HtmlEl(ns_xhtml_im, ns_xhtml, m.xhtml)>> ELSE <<>>

\* a stamp always written the XEP-0203 way
stampChildModernOnly(m) ==
    IF isValid(m.stamp)
    THEN <<StampEl("delay", ns_delayed_delivery, datetimeToString(m.stamp))>>
    ELSE <<>>

stampChild(m) ==
    IF isValid(m.stamp)
    THEN IF m.stampType = DelayedDelivery
         THEN <<StampEl("delay", ns_delayed_delivery, datetimeToString(m.stamp))>>
         ELSE <<StampEl("x", ns_legacy_delayed_delivery, legacyToString(m.stamp))>>
    ELSE <<>>

receivedChild(m) ==
    IF m.receiptId # ""
    THEN <<IdEl("received", ns_message_receipts, m.receiptId)>> ELSE <<>>

requestChild(m) ==
    IF m.receiptRequested THEN <<El("request", ns_message_receipts)>> ELSE <<>>

attentionChild(m) ==
    IF m.attentionRequested THEN <<El("attention", ns_attention)>> ELSE <<>>

extensionChildren(m) ==
    [i \in 1..Len(m.extensions) |-> extensionToXml(m.extensions[i])]

\* the attention child written ahead of the receipt children
attentionFirst(m) == attentionChild(m) \o receivedChild(m) \o requestChild(m)

\* the XEP-0184 and XEP-0224 children, in the order written
receiptAndAttention(m) == receivedChild(m) \o requestChild(m) \o attentionChild(m)

\* QXmppMessage::toXml: the message element written
ToXmlValue(m) ==
    [lang |-> m.lang, id |-> m.id, to |-> m.to, from |-> m.from,
     type |-> message_types(m.type),
     children |->
        textChild("subject", m.subject) \o textChild("body", m.body)
        \o textChild("thread", m.thread) \o errorToXml(m.error)
        \o stateChild(m) \o xhtmlChild(m) \o stampChild(m)
        \o receiptAndAttention(m) \o extensionChildren(m)]

(***************************************************************************)
(* Bounds and inputs                                                       *)
(***************************************************************************)
\* setter calls on one object
MaxOps == 3
\* ids generateAndSetNextId hands out
MaxIds == 2
\* children of a decoded element
MaxChildren == 2
\* tokens of markup a message holds
MaxMarkup == 6

SeqsUpTo(A, n) == UNION {[1..k -> A] : k \in 0..n}

Texts == {"", "hello"}
Markups == {<<>>, <<"<p>", "hi", "</p>">>}
Stamps == {InvalidStamp, 1, 2}
CustomX == [El("x", ns_foreign) EXCEPT !.text = "custom"]
OtherX == [El("x", "urn:example:other") EXCEPT !.text = "other"]
ExtensionLists == {<<>>, <<CustomX, OtherX>>}

(***************************************************************************)
(* Operations                                                              *)
(***************************************************************************)
Op(name) == [op |-> name, requested |-> FALSE]

Fresh == Constructed("", "", "", "")

InitWith(m) ==
    /\ msg = m
    /\ s_uniqeIdNo = 0
    /\ elem = <<>>
    /\ out = <<>>
    /\ last = Op("construct")
    /\ receiptBySetter = FALSE
    /\ cleanBefore = FALSE
    /\ nops = 0

\* a new message object
Construct ==
    \E to \in {"", "bob@example.org"}, body \in Texts :
        /\ msg' = Constructed("", to, body, "")
        /\ elem' = <<>>
        /\ out' = <<>>
        /\ last' = Op("construct")
        /\ receiptBySetter' = FALSE
        /\ cleanBefore' = FALSE
        /\ nops' = 0
        /\ UNCHANGED s_uniqeIdNo

\* a setter that touches the object alone
Set(name, m) ==
    /\ nops < MaxOps
    /\ msg' = m
    /\ elem' = <<>>
    /\ out' = <<>>
    /\ last' = Op(name)
    /\ receiptBySetter' = (receiptBySetter /\ m.id # "")
    /\ cleanBefore' = FALSE
    /\ nops' = nops + 1
    /\ UNCHANGED s_uniqeIdNo

setBody == \E body \in Texts : Set("setBody", setBodyValue(msg, body))
setSubject == \E subject \in Texts : Set("setSubject", setSubjectValue(msg, subject))
setThread == \E thread \in Texts : Set("setThread", setThreadValue(msg, thread))
setType == \E type \in Error..Headline : Set("setType", setTypeValue(msg, type))
setState == \E state \in None..Paused : Set("setState", setStateValue(msg, state))
setXhtml == \E xhtml \in Markups : Set("setXhtml", setXhtmlValue(msg, xhtml))
setStamp == \E stamp \in Stamps : Set("setStamp", setStampValue(msg, stamp))
setReceiptId == \E id \in {"", "msg1"} : Set("setReceiptId", setReceiptIdValue(msg, id))
setAttentionRequested ==
    \E requested \in BOOLEAN :
        Set("setAttentionRequested", setAttentionRequestedValue(msg, requested))
setId == \E id \in {"", "a"} : Set("setId", setIdValue(msg, id))
setExtensions ==
    \E extensions \in ExtensionLists :
        Set("setExtensions", setExtensionsValue(msg, extensions))
setError == \E error \in {"", "item-not-found"} : Set("setError", setErrorValue(msg, error))

setReceiptRequested ==
    \E requested \in BOOLEAN :
        LET r == setReceiptRequestedValue(msg, requested, s_uniqeIdNo)
        IN  /\ nops < MaxOps
            /\ r.counter <= MaxIds
            /\ msg' = r.m
            /\ s_uniqeIdNo' = r.counter
            /\ elem' = <<>>
            /\ out' = <<>>
            /\ last' = [op |-> "setReceiptRequested", requested |-> requested]
            /\ receiptBySetter' = requested
            /\ cleanBefore' = FALSE
            /\ nops' = nops + 1

\* parse(element) on the object as it is
Parse(element) ==
    /\ LET m == ParseValue(msg, element)
       IN  Len(m.xhtml) <= MaxMarkup /\ msg' = m
    /\ elem' = <<element>>
    /\ out' = <<>>
    /\ last' = Op("parse")
    /\ receiptBySetter' = FALSE
    /\ cleanBefore' = (msg.state = None /\ msg.xhtml = <<>> /\ ~isValid(msg.stamp))
    /\ UNCHANGED <<s_uniqeIdNo, nops>>

\* toXml() const, into a writer
ToXml ==
    /\ out' = <<ToXmlValue(msg)>>
    /\ last' = Op("toXml")
    /\ UNCHANGED <<msg, s_uniqeIdNo, elem, receiptBySetter, cleanBefore, nops>>

(***************************************************************************)
(* Construction, setters and encoding                                      *)
(***************************************************************************)
Init == \E to \in {"", "bob@example.org"}, body \in Texts : InitWith(Constructed("", to, body, ""))

Next ==
    \/ Construct
    \/ setBody \/ setSubject \/ setThread \/ setType \/ setState \/ setXhtml
    \/ setStamp \/ setReceiptId \/ setReceiptRequested \/ setAttentionRequested
    \/ setId \/ setExtensions \/ setError
    \/ ToXml

Spec == Init /\ [][Next]_vars

(***************************************************************************)
(* Encoding alone: every value the setters and the decoder can make        *)
(***************************************************************************)
EncodeValues ==
    {[Fresh EXCEPT !.type = type, !.subject = subject, !.body = body,
                   !.thread = thread, !.error = error, !.state = state,
                   !.xhtml = xhtml, !.stamp = stamp, !.stampType = stampType,
                   !.receiptId = receiptId, !.receiptRequested = receiptRequested,
                   !.attentionRequested = attentionRequested,
                   !.extensions = extensions] :
        type \in Error..Headline, subject \in Texts, body \in Texts,
        thread \in Texts, error \in {"", "item-not-found"},
        state \in None..Paused, xhtml \in Markups, stamp \in Stamps,
        stampType \in {DelayedDelivery, LegacyDelayedDelivery},
        receiptId \in {"", "msg1"}, receiptRequested \in BOOLEAN,
        attentionRequested \in BOOLEAN, extensions \in ExtensionLists}

InitEncode == \E m \in EncodeValues : InitWith(m)
NextEncode == ToXml
SpecEncode == InitEncode /\ [][NextEncode]_vars

(***************************************************************************)
(* Properties of construction and of the setters                           *)
(***************************************************************************)
\* the object is as the constructor left it
Untouched == nops = 0 /\ elem = <<>>

ExtensionDefaults ==
    /\ msg.state = None
    /\ ~msg.receiptRequested
    /\ ~msg.attentionRequested
    /\ ~isValid(msg.stamp)
    /\ msg.receiptId = ""

\* C4, as claimed: a constructed message has type Normal, chat state None, no
\* receipt request, no attention request, no timestamp and no receipt id, and
\* is encoded with type="normal".
C4_ConstructedIsNormal ==
    Untouched =>
        /\ ExtensionDefaults
        /\ msg.type = Normal
        /\ (out # <<>> => out[1].type = "normal")

\* C4, amended: a constructed message has type Chat, chat state None, no
\* receipt request, no attention request, no timestamp and no receipt id, and
\* is encoded with type="chat".
C4_ConstructedIsChat ==
    Untouched =>
        /\ ExtensionDefaults
        /\ msg.type = Chat
        /\ (out # <<>> => out[1].type = "chat")

C4_Witness == Untouched /\ out # <<>>

\* the fields setReceiptRequested may change, blanked
BesidesReceiptAndId(m) == [m EXCEPT !.receiptRequested = FALSE, !.id = ""]

\* C9: setReceiptRequested(true) on a message without id gives it a fresh
\* non-empty id; with an id, or with false, the id stays; nothing but
\* receiptRequested and id changes; and a receipt requested through the setter
\* comes with a non-empty id until the id is cleared.
C9_ReceiptRequestAssignsId ==
    /\ [][last'.op = "setReceiptRequested" =>
            /\ msg'.receiptRequested = last'.requested
            /\ IF last'.requested /\ msg.id = ""
               THEN /\ msg'.id # ""
                    /\ msg'.id \notin {GeneratedId(k) : k \in 1..s_uniqeIdNo}
               ELSE msg'.id = msg.id
            /\ BesidesReceiptAndId(msg') = BesidesReceiptAndId(msg)]_vars
    /\ [](receiptBySetter => msg.receiptRequested /\ msg.id # "")

C9_Witness ==
    /\ last.op = "setReceiptRequested" /\ last.requested
    /\ s_uniqeIdNo = 2 /\ msg.id = GeneratedId(2)
    /\ msg.body # ""

(***************************************************************************)
(* Properties of the encoder                                               *)
(***************************************************************************)
\* the place of a written child in the encoder's order
Rank(c) ==
    CASE c.name = "subject" -> 1
      [] c.name = "body" -> 2
      [] c.name = "thread" -> 3
      [] c.name = "error" -> 4
      [] c.ns = ns_chat_states -> 5
      [] c.name = "html" -> 6
      [] c.name = "delay" -> 7
      [] c.name = "x" /\ c.ns = ns_legacy_delayed_delivery -> 7
      [] c.name = "received" -> 8
      [] c.name = "request" -> 9
      [] c.name = "attention" -> 10
      [] OTHER -> 11

Written == out[1].children
WrittenAt(r) == SelectSeq(Written, LAMBDA c : Rank(c) = r)

\* rank r holds exactly child c when cond, and nothing otherwise
Emits(r, cond, c) == WrittenAt(r) = IF cond THEN <<c>> ELSE <<>>

\* C3: the children are written in the order subject, body, thread, error,
\* chat state, html, delay or legacy x, received, request, attention,
\* extensions; each exactly when its condition holds.
C3_EncodeOrderAndConditions ==
    out # <<>> =>
        /\ out[1].type = message_types_tab[msg.type + 1]
        /\ \A i, j \in 1..Len(Written) : i < j => Rank(Written[i]) <= Rank(Written[j])
        /\ Emits(1, msg.subject # "", TextEl("subject", msg.subject))
        /\ Emits(2, msg.body # "", TextEl("body", msg.body))
        /\ Emits(3, msg.thread # "", TextEl("thread", msg.thread))
        /\ Emits(4, msg.error # "", TextEl("error", msg.error))
        /\ Emits(5, msg.state \in Active..Paused,
                 El(chat_states_tab[msg.state + 1], ns_chat_states))
        /\ Emits(6, msg.xhtml # <<>>, HtmlEl(ns_xhtml_im, ns_xhtml, msg.xhtml))
        /\ Emits(7, isValid(msg.stamp),
                 IF msg.stampType = DelayedDelivery
                 THEN StampEl("delay", ns_delayed_delivery, datetimeToString(msg.stamp))
                 ELSE StampEl("x", ns_legacy_delayed_delivery, legacyToString(msg.stamp)))
        /\ Emits(8, msg.receiptId # "", IdEl("received", ns_message_receipts, msg.receiptId))
        /\ Emits(9, msg.receiptRequested, El("request", ns_message_receipts))
        /\ Emits(10, msg.attentionRequested, El("attention", ns_attention))
        /\ WrittenAt(11) = msg.extensions

C3_Witness ==
    /\ out # <<>>
    /\ Len(Written) = 12
    /\ msg.stampType = LegacyDelayedDelivery

IsAttention(c) == c = El("attention", ns_attention)
IsReceived(c) == c = IdEl("received", ns_message_receipts, msg.receiptId)
BothRequested == out # <<>> /\ msg.attentionRequested /\ msg.receiptId # ""

\* C2, as claimed: with attention requested and a receipt id, an attention
\* child and a received child are both written, attention before received.
C2_AttentionBeforeReceived ==
    BothRequested =>
        \E i, j \in 1..Len(Written) :
            i < j /\ IsAttention(Written[i]) /\ IsReceived(Written[j])

\* C2, amended: with attention requested and a receipt id, a received child
\* and an attention child are both written, received before attention.
C2_ReceivedBeforeAttention ==
    BothRequested =>
        \E i, j \in 1..Len(Written) :
            i < j /\ IsReceived(Written[i]) /\ IsAttention(Written[j])

C2_Witness == BothRequested /\ msg.receiptId = "msg1" /\ msg.receiptRequested

(***************************************************************************)
(* Decoding: one specification for each group of children                  *)
(***************************************************************************)
GoodStamp == "2009-01-10T08:21:05Z"
ZonedStamp == "2009-01-10T10:21:05+02:00"
GoodLegacyStamp == "20090110T08:21:05"
BadStamp == "yesterday"

ElementsOver(types, ids, alphabet) ==
    {Element(type, id, children) :
        type \in types, id \in ids, children \in SeqsUpTo(alphabet, MaxChildren)}

\* chat states
ChatStateChildren ==
    {El("active", ns_chat_states), El("composing", ns_chat_states),
     El("composing", ns_foreign), El("paused", ns_chat_states),
     El("gone", ns_foreign), TextEl("body", "hello")}
ChatStateElements == ElementsOver({"chat"}, {""}, ChatStateChildren)
ParseChatState == \E element \in ChatStateElements : Parse(element)
NextChatState == Construct \/ setState \/ ParseChatState \/ ToXml
SpecChatState == InitWith(Fresh) /\ [][NextChatState]_vars

\* delivery receipts
ReceiptChildren ==
    {IdEl("received", ns_message_receipts, "r1"),
     IdEl("received", ns_message_receipts, ""),
     IdEl("received", ns_foreign, "r2"),
     El("request", ns_message_receipts), El("request", ns_foreign)}
ReceiptElements == ElementsOver({"chat"}, {"", "a"}, ReceiptChildren)
ParseReceipts == \E element \in ReceiptElements : Parse(element)
NextReceipts ==
    Construct \/ setReceiptId \/ setReceiptRequested \/ ParseReceipts \/ ToXml
SpecReceipts == InitWith(Fresh) /\ [][NextReceipts]_vars

\* delayed delivery
DelayChildren ==
    {StampEl("delay", ns_delayed_delivery, GoodStamp),
     StampEl("delay", ns_delayed_delivery, BadStamp),
     StampEl("delay", ns_foreign, "2010-02-03T04:05:06Z"),
     StampEl("x", ns_legacy_delayed_delivery, GoodLegacyStamp),
     StampEl("x", ns_legacy_delayed_delivery, BadStamp),
     CustomX}
DelayElements == ElementsOver({"chat"}, {""}, DelayChildren)
ParseDelayed == \E element \in DelayElements : Parse(element)
NextDelay == Construct \/ setStamp \/ ParseDelayed \/ ToXml
SpecDelay == InitWith(Fresh) /\ [][NextDelay]_vars

\* what a decode may leave behind
PureChildren ==
    {El("composing", ns_chat_states),
     HtmlEl(ns_xhtml_im, ns_xhtml, <<"<b>", "yo", "</b>">>),
     HtmlEl(ns_xhtml_im, "", <<>>),
     StampEl("delay", ns_delayed_delivery, GoodStamp),
     TextEl("body", "hello"),
     CustomX}
PureElements == ElementsOver({"chat"}, {""}, PureChildren)
ParsePure == \E element \in PureElements : Parse(element)
NextPure == Construct \/ setState \/ setXhtml \/ setStamp \/ ParsePure \/ ToXml
SpecPure == InitWith(Fresh) /\ [][NextPure]_vars

\* extensions
ExtensionChildren ==
    {CustomX, OtherX,
     StampEl("x", ns_legacy_delayed_delivery, GoodLegacyStamp),
     TextEl("body", "hello"),
     [El("geoloc", ns_foreign) EXCEPT !.text = "here"]}
ExtensionElements == ElementsOver({"chat"}, {""}, ExtensionChildren)
ParseExtensions == \E element \in ExtensionElements : Parse(element)
NextExtensions == Construct \/ setExtensions \/ ParseExtensions \/ ToXml
SpecExtensions == InitWith(Fresh) /\ [][NextExtensions]_vars

\* round trips
RoundTripChildren ==
    {TextEl("subject", "hello"), TextEl("body", "hello"),
     El("composing", ns_chat_states),
     StampEl("delay", ns_delayed_delivery, GoodStamp),
     StampEl("delay", ns_delayed_delivery, ZonedStamp)}
FullStanza(stampChild_) ==
    <<TextEl("subject", "hello"), TextEl("body", "hello"), TextEl("thread", "hello"),
      El("paused", ns_chat_states), stampChild_,
      IdEl("received", ns_message_receipts, "msg1"),
      El("request", ns_message_receipts), El("attention", ns_attention)>>
RoundTripElements ==
    ElementsOver({"chat"}, {""}, RoundTripChildren)
    \cup {Element(type, "", <<>>) :
            type \in {"", "error", "normal", "chat", "groupchat", "headline", "bogus"}}
    \cup {Element("groupchat", "a", FullStanza(c)) :
            c \in {StampEl("delay", ns_delayed_delivery, GoodStamp),
                   StampEl("x", ns_legacy_delayed_delivery, GoodLegacyStamp)}}
    \cup {Element("chat", "a", <<IdEl("received", ns_message_receipts, "")>>),
          Element("chat", "", <<TextEl("body", "")>>)}
ParseRoundTrip == \E element \in RoundTripElements : Parse(element)
NextRoundTrip == Construct \/ ParseRoundTrip \/ ToXml
SpecRoundTrip == InitWith(Fresh) /\ [][NextRoundTrip]_vars

(***************************************************************************)
(* Properties of the decoder                                               *)
(***************************************************************************)
Decoded == elem # <<>>
Kids == elem[1].children
Encoded == out # <<>>

StateNames == {chat_states_tab[i + 1] : i \in Active..Paused}
In(children, name, ns) ==
    SelectSeq(children, LAMBDA c : c.name = name /\ c.ns = ns)
Has(children, name, ns) == In(children, name, ns) # <<>>

\* the first state, in table order, with a same-named child in the namespace
StateFor(children) ==
    LET hits == {i \in Active..Paused : Has(children, chat_states_tab[i + 1], ns_chat_states)}
    IN  IF hits = {} THEN None ELSE CHOOSE i \in hits : \A j \in hits : i <= j

\* C8: the first of active, inactive, gone, composing, paused for which the
\* element has a same-named child in the chat-states namespace is the chat
\* state; without such a child the chat state is None.
C8_ChatStateFromTable == Decoded => msg.state = StateFor(Kids)

\* C7: receiptForId is the id of the received child in the receipts
\* namespace, the stanza's id when that is empty, and empty without such a
\* child; receiptRequested holds exactly when some request child in the
\* receipts namespace exists.
C7_ReceiptChildren ==
    Decoded =>
        LET received == In(Kids, "received", ns_message_receipts)
        IN  /\ msg.receiptId =
                    IF received = <<>> THEN ""
                    ELSE IF received[1].id = "" THEN elem[1].id
                    ELSE received[1].id
            /\ msg.receiptRequested <=> Has(Kids, "request", ns_message_receipts)

ModernDelays == In(Kids, "delay", ns_delayed_delivery)
LegacyDelays == In(Kids, "x", ns_legacy_delayed_delivery)
StampsFound ==
    ({datetimeFromString(ModernDelays[i].stamp) : i \in 1..Len(ModernDelays)}
     \cup {legacyFromString(LegacyDelays[i].stamp) : i \in 1..Len(LegacyDelays)})
    \ {InvalidStamp}
\* the stamp that decides: the last legacy x when there is one, else the delay
DecidingUnparseable ==
    IF LegacyDelays # <<>>
    THEN ~isValid(legacyFromString(LegacyDelays[Len(LegacyDelays)].stamp))
    ELSE ModernDelays # <<>> /\ ~isValid(datetimeFromString(ModernDelays[1].stamp))

\* C6: after a decode the timestamp is absent or the parsed value of a stamp
\* on the element; when the deciding stamp is unparseable the timestamp is
\* absent and no delay child is written.
C6_TimestampValidOrAbsent ==
    Decoded =>
        /\ isValid(msg.stamp) => msg.stamp \in StampsFound
        /\ DecidingUnparseable =>
              /\ ~isValid(msg.stamp)
              /\ Encoded => WrittenAt(7) = <<>>

\* C10: a decode gives what decoding the element into a new message gives,
\* whatever the message held: without a chat-state child the state is None,
\* without the html/body pair the xhtml body is empty, without a delay child
\* the timestamp is absent.
C10_DecodeIsPure ==
    Decoded =>
        /\ msg = ParseValue(Fresh, elem[1])
        /\ StateFor(Kids) = None => msg.state = None
        /\ (\A i \in 1..Len(Kids) :
                ~(Kids[i].name = "html" /\ Kids[i].ns = ns_xhtml_im
                  /\ Kids[i].bodyNs = ns_xhtml)) => msg.xhtml = <<>>
        /\ (ModernDelays = <<>> /\ LegacyDelays = <<>>) => ~isValid(msg.stamp)

(***************************************************************************)
(* Properties of decode followed by encode                                 *)
(***************************************************************************)
\* a child the codec reads a field from
Interpreted(c) ==
    \/ c.name \in {"subject", "body", "thread", "error"}
    \/ c.name \in StateNames /\ c.ns = ns_chat_states
    \/ c.name = "html" /\ c.ns = ns_xhtml_im
    \/ c.name = "received" /\ c.ns = ns_message_receipts
    \/ c.name = "request" /\ c.ns = ns_message_receipts
    \/ c.name = "delay" /\ c.ns = ns_delayed_delivery
    \/ c.name = "attention" /\ c.ns = ns_attention
    \/ c.name = "x" /\ c.ns = ns_legacy_delayed_delivery

OpaqueX(c) == c.name = "x" /\ c.ns # ns_legacy_delayed_delivery

WireTypes == {message_types_tab[i + 1] : i \in Error..Headline}

\* a child of one of the kinds the codec understands
Understands(c) ==
    \/ c.name \in {"subject", "body", "thread"}
    \/ c.name \in StateNames /\ c.ns = ns_chat_states
    \/ c.name = "delay" /\ c.ns = ns_delayed_delivery
         /\ isValid(datetimeFromString(c.stamp))
    \/ c.name = "x" /\ c.ns = ns_legacy_delayed_delivery
         /\ isValid(legacyFromString(c.stamp))
    \/ c.name = "received" /\ c.ns = ns_message_receipts
    \/ c.name = "request" /\ c.ns = ns_message_receipts
    \/ c.name = "attention" /\ c.ns = ns_attention

UnderstoodStanza ==
    /\ \A i \in 1..Len(Kids) : Understands(Kids[i])
    /\ Cardinality({i \in 1..Len(Kids) : Rank(Kids[i]) = 5}) <= 1
    /\ Cardinality({i \in 1..Len(Kids) : Rank(Kids[i]) = 7}) <= 1

\* a child exactly as the encoder writes it
CanonicalChild(c) ==
    \/ c.name \in {"subject", "body", "thread"} /\ c.text # ""
         /\ c = TextEl(c.name, c.text)
    \/ c.name \in StateNames /\ c = El(c.name, ns_chat_states)
    \/ c = StampEl("delay", ns_delayed_delivery, c.stamp)
         /\ isValid(datetimeFromString(c.stamp))
         /\ datetimeToString(datetimeFromString(c.stamp)) = c.stamp
    \/ c = StampEl("x", ns_legacy_delayed_delivery, c.stamp)
         /\ isValid(legacyFromString(c.stamp))
         /\ legacyToString(legacyFromString(c.stamp)) = c.stamp
    \/ c = IdEl("received", ns_message_receipts, c.id) /\ c.id # ""
    \/ c = El("request", ns_message_receipts)
    \/ c = El("attention", ns_attention)

\* a stanza in the encoder's form: a wire type, canonical children, in the
\* encoder's order, each kind at most once
CanonicalStanza ==
    /\ elem[1].type \in WireTypes
    /\ \A i \in 1..Len(Kids) : CanonicalChild(Kids[i])
    /\ \A i, j \in 1..Len(Kids) : i < j => Rank(Kids[i]) < Rank(Kids[j])

TypeRoundTrip ==
    (Decoded /\ Encoded /\ elem[1].type \in WireTypes) => out[1].type = elem[1].type

====
